---- MODULE Spec2Model ----
(***************************************************************************)
(* A model of muninn_sentinel2.py: the Sentinel-2 product type plugins of  *)
(* muninn (filename grammars, identify, analyze, archive_path, the         *)
(* metadata readers and the export helpers).                               *)
(*                                                                         *)
(* Strings are TLA+ strings; a character is a string of length one.        *)
(* Python values that can be an exception are records with a field "exc"   *)
(* ("" when the call returned).                                            *)
(***************************************************************************)
EXTENDS Integers, Sequences, FiniteSets, TLC

(***************************************************************************)
(* Characters and strings                                                  *)
(***************************************************************************)

\* The characters that occur in paths, in ascending code point order.
CodeOrder ==
    "\n./0123456789ABCDEFGHIJKLMNOPQRSTUVWXYZ_abcdefghijklmnopqrstuvwxyz"

Digits == "0123456789"

CharAt(s, i) == SubSeq(s, i, i)

Ord(c) == CHOOSE i \in 1..Len(CodeOrder) : CharAt(CodeOrder, i) = c

IsDigit(c) == \E i \in 1..Len(Digits) : CharAt(Digits, i) = c

DigitVal(c) == (CHOOSE i \in 1..Len(Digits) : CharAt(Digits, i) = c) - 1

AllDigits(s) == \A i \in 1..Len(s) : IsDigit(CharAt(s, i))

RECURSIVE IntOf(_)
\* int(s) for a non-empty string of ASCII digits
IntOf(s) ==
    IF Len(s) = 0 THEN 0
    ELSE 10 * IntOf(SubSeq(s, 1, Len(s) - 1)) + DigitVal(CharAt(s, Len(s)))

StartsWith(s, p) == Len(s) >= Len(p) /\ SubSeq(s, 1, Len(p)) = p

EndsWith(s, p) == Len(s) >= Len(p) /\ SubSeq(s, Len(s) - Len(p) + 1, Len(s)) = p

\* s[a:b] of Python for 0 <= a, 0 <= b (clipped to the string)
Slice(s, a, b) ==
    LET hi == IF b > Len(s) THEN Len(s) ELSE b
    IN IF a >= hi THEN "" ELSE SubSeq(s, a + 1, hi)

\* s[a:] of Python
SliceFrom(s, a) == Slice(s, a, Len(s))

\* s.lower() is not needed; s.replace(".", "") is:
RECURSIVE RemoveDots(_)
RemoveDots(s) ==
    IF Len(s) = 0 THEN ""
    ELSE IF CharAt(s, 1) = "." THEN RemoveDots(Tail(s))
         ELSE CharAt(s, 1) \o RemoveDots(Tail(s))

\* s < t of Python str: lexicographic by code point
StrLess(s, t) ==
    LET n == IF Len(s) < Len(t) THEN Len(s) ELSE Len(t)
        D == {i \in 1..n : CharAt(s, i) # CharAt(t, i)}
    IN IF D = {} THEN Len(s) < Len(t)
       ELSE LET i == CHOOSE d \in D : \A e \in D : d <= e
            IN Ord(CharAt(s, i)) < Ord(CharAt(t, i))

RECURSIVE Insert(_, _)
Insert(sortedSeq, p) ==
    IF Len(sortedSeq) = 0 THEN <<p>>
    ELSE IF StrLess(p, Head(sortedSeq)) THEN <<p>> \o sortedSeq
         ELSE <<Head(sortedSeq)>> \o Insert(Tail(sortedSeq), p)

RECURSIVE sorted(_)
\* sorted(paths): ascending, stable, on the whole strings
sorted(paths) ==
    IF Len(paths) = 0 THEN <<>>
    ELSE Insert(sorted(SubSeq(paths, 1, Len(paths) - 1)), paths[Len(paths)])

(***************************************************************************)
(* os.path                                                                 *)
(***************************************************************************)

\* index of the last occurrence of character c in s, 0 when there is none
LastIndexOf(s, c) ==
    LET I == {i \in 1..Len(s) : CharAt(s, i) = c}
    IN IF I = {} THEN 0 ELSE CHOOSE i \in I : \A j \in I : j <= i

basename(p) == SliceFrom(p, LastIndexOf(p, "/"))

RECURSIVE StripTrailingSlashes(_)
StripTrailingSlashes(s) ==
    IF Len(s) > 0 /\ CharAt(s, Len(s)) = "/"
    THEN StripTrailingSlashes(SubSeq(s, 1, Len(s) - 1)) ELSE s

\* posixpath.dirname: the head up to the last slash, without trailing
\* slashes unless it consists of slashes only
dirname(p) ==
    LET head == Slice(p, 0, LastIndexOf(p, "/"))
    IN IF StripTrailingSlashes(head) = "" THEN head ELSE StripTrailingSlashes(head)

\* posixpath.splitext: split at the last dot of the last component, unless
\* that dot is a leading dot of the component
splitext(p) ==
    LET sep == LastIndexOf(p, "/")
        dot == LastIndexOf(p, ".")
        leading == \A i \in (sep + 1)..(dot - 1) : CharAt(p, i) = "."
    IN IF dot > sep /\ ~leading
       THEN <<Slice(p, 0, dot - 1), SliceFrom(p, dot - 1)>>
       ELSE <<p, "">>

\* posixpath.join of two components
join(a, b) ==
    IF StartsWith(b, "/") THEN b
    ELSE IF a = "" \/ EndsWith(a, "/") THEN a \o b
    ELSE a \o "/" \o b

\* the working directory of the process
Cwd == "/cwd"

\* posixpath.abspath for paths without "." and ".." components and without
\* doubled slashes: make absolute, drop trailing slashes
abspath(p) ==
    LET q == IF StartsWith(p, "/") THEN p ELSE join(Cwd, p)
    IN IF StripTrailingSlashes(q) = "" THEN "/" ELSE StripTrailingSlashes(q)

(***************************************************************************)
(* Regular expressions.  Every pattern of the module is a sequence of      *)
(* atoms of fixed width; an atom carries the name of the group it is in.   *)
(***************************************************************************)

Bol == [k |-> "bol", s |-> "", a |-> <<>>, n |-> 0, g |-> ""]
Eol == [k |-> "eol", s |-> "", a |-> <<>>, n |-> 0, g |-> ""]
Lit(s, g) == [k |-> "lit", s |-> s, a |-> <<>>, n |-> 1, g |-> g]
Alt(a, g) == [k |-> "alt", s |-> "", a |-> a, n |-> 1, g |-> g]
\* c is "d" for \d, "dT" for [\dT], "any" for .
Cls(c, n, g) == [k |-> "cls", s |-> c, a |-> <<>>, n |-> n, g |-> g]

InClass(c, ch) ==
    CASE c = "d" -> IsDigit(ch)
      [] c = "dT" -> IsDigit(ch) \/ ch = "T"
      [] OTHER -> ch # "\n"

\* the position after atom at position pos of s, or -1
MatchAtom(atom, s, pos) ==
    CASE atom.k = "bol" -> IF pos = 0 THEN pos ELSE -1
      [] atom.k = "eol" ->
            IF pos = Len(s) \/ (pos = Len(s) - 1 /\ CharAt(s, Len(s)) = "\n")
            THEN pos ELSE -1
      [] atom.k = "lit" ->
            IF Slice(s, pos, pos + Len(atom.s)) = atom.s
            THEN pos + Len(atom.s) ELSE -1
      [] atom.k = "alt" ->
            LET I == {i \in 1..Len(atom.a) :
                        Slice(s, pos, pos + Len(atom.a[i])) = atom.a[i]}
            IN IF I = {} THEN -1
               ELSE pos + Len(atom.a[CHOOSE i \in I : \A j \in I : i <= j])
      [] OTHER ->
            IF pos + atom.n <= Len(s)
               /\ \A i \in (pos + 1)..(pos + atom.n) : InClass(atom.s, CharAt(s, i))
            THEN pos + atom.n ELSE -1

RECURSIVE MatchFrom(_, _, _, _)
MatchFrom(atoms, i, s, pos) ==
    IF i > Len(atoms) THEN pos
    ELSE LET p == MatchAtom(atoms[i], s, pos)
         IN IF p < 0 THEN -1 ELSE MatchFrom(atoms, i + 1, s, p)

\* re.match(pattern, s) is not None
re_match(pattern, s) == MatchFrom(pattern, 1, s, 0) >= 0

GroupNames(pattern) == {pattern[i].g : i \in 1..Len(pattern)} \ {""}

RECURSIVE GroupText(_, _, _, _, _)
GroupText(pattern, i, s, pos, g) ==
    IF i > Len(pattern) THEN ""
    ELSE LET p == MatchAtom(pattern[i], s, pos)
         IN (IF pattern[i].g = g THEN Slice(s, pos, p) ELSE "")
            \o GroupText(pattern, i + 1, s, p, g)

\* match.groupdict() of a successful match
groupdict(pattern, s) ==
    [g \in GroupNames(pattern) |-> GroupText(pattern, 1, s, 0, g)]

RECURSIVE JoinPattern(_)
\* "_".join(pattern)
JoinPattern(pieces) ==
    IF Len(pieces) = 0 THEN <<>>
    ELSE IF Len(pieces) = 1 THEN pieces[1]
    ELSE pieces[1] \o <<Lit("_", "")>> \o JoinPattern(Tail(pieces))

(***************************************************************************)
(* Product types                                                           *)
(***************************************************************************)

USER_PRODUCT_TYPES == <<"MSIL1C", "MSIL2A">>

PDI_PRODUCT_TYPES == <<"MSI_L1C_DS", "MSI_L1C_TL", "MSI_L2A_DS", "MSI_L2A_TL">>

AUX_EOF_PRODUCT_TYPES == <<"AUX_POEORB">>

AUX_HDR_DBL_PRODUCT_TYPES == <<"AUX_GNSSRD", "AUX_PROQUA">>

\* product type -> whether its HDR file uses the xmlns namespace
GIPP_PRODUCT_TYPES ==
    "GIP_ATMIMA" :> TRUE @@
    "GIP_ATMSAD" :> TRUE @@
    "GIP_BLINDP" :> TRUE @@
    "GIP_CLOINV" :> TRUE @@
    "GIP_CLOPAR" :> TRUE @@
    "GIP_CONVER" :> FALSE @@
    "GIP_DATATI" :> TRUE @@
    "GIP_DECOMP" :> FALSE @@
    "GIP_EARMOD" :> TRUE @@
    "GIP_ECMWFP" :> FALSE @@
    "GIP_G2PARA" :> TRUE @@
    "GIP_G2PARE" :> TRUE @@
    "GIP_GEOPAR" :> TRUE @@
    "GIP_INTDET" :> TRUE @@
    "GIP_INVLOC" :> TRUE @@
    "GIP_JP2KPA" :> FALSE @@
    "GIP_L2ACAC" :> TRUE @@
    "GIP_L2ACSC" :> TRUE @@
    "GIP_LREXTR" :> TRUE @@
    "GIP_MASPAR" :> TRUE @@
    "GIP_OLQCPA" :> TRUE @@
    "GIP_PRDLOC" :> TRUE @@
    "GIP_PROBA2" :> FALSE @@
    "GIP_PROBAS" :> FALSE @@
    "GIP_R2ABCA" :> FALSE @@
    "GIP_R2BINN" :> TRUE @@
    "GIP_R2CRCO" :> TRUE @@
    "GIP_R2DECT" :> TRUE @@
    "GIP_R2DEFI" :> TRUE @@
    "GIP_R2DENT" :> TRUE @@
    "GIP_R2DEPI" :> TRUE @@
    "GIP_R2EOB2" :> FALSE @@
    "GIP_R2EQOG" :> FALSE @@
    "GIP_R2L2NC" :> TRUE @@
    "GIP_R2NOMO" :> TRUE @@
    "GIP_R2PARA" :> TRUE @@
    "GIP_R2SWIR" :> FALSE @@
    "GIP_R2WAFI" :> TRUE @@
    "GIP_RESPAR" :> TRUE @@
    "GIP_SPAMOD" :> TRUE @@
    "GIP_TILPAR" :> TRUE @@
    "GIP_VIEDIR" :> TRUE

IERS_PRODUCT_TYPES == <<"AUX_UT1UTC">>

Range(seq) == {seq[i] : i \in 1..Len(seq)}

(***************************************************************************)
(* The product classes.  An object is a record of its attributes; attrs is *)
(* the set of attributes that __init__ assigned (reading another one       *)
(* raises AttributeError).                                                 *)
(***************************************************************************)

MissionAtoms ==
    <<Lit("S2", "mission"), Alt(<<"_", "A", "B", "C", "D">>, "mission")>>

SAFEProduct(product_type, packaged) ==
    [cls |-> "SAFE", product_type |-> product_type,
     attrs |-> {"product_type", "packaged", "package_format", "filename_pattern"},
     is_multi_file_product |-> FALSE, packaged |-> packaged,
     package_format |-> "zip", xml_namespace |-> FALSE, ext |-> "SAFE"]

PDIProduct(product_type, packaged) ==
    [cls |-> "PDI", product_type |-> product_type,
     attrs |-> {"product_type", "is_multi_file_product", "packaged",
                "package_format", "filename_pattern"},
     is_multi_file_product |-> FALSE, packaged |-> packaged,
     package_format |-> "tar", xml_namespace |-> FALSE, ext |-> ""]

EOFClass(cls, product_type, split, packaged, xmlns, ext) ==
    [cls |-> cls, product_type |-> product_type,
     attrs |-> {"product_type", "is_multi_file_product", "packaged",
                "package_format", "xml_namespace", "filename_pattern"},
     is_multi_file_product |-> split, packaged |-> packaged,
     package_format |-> IF split THEN "tgz" ELSE "zip",
     xml_namespace |-> xmlns, ext |-> ext]

EOFProduct(product_type, split, packaged) ==
    EOFClass("EOF", product_type, split, packaged, FALSE, "EOF")

GIPPProduct(product_type, has_xmlns, packaged) ==
    EOFClass("GIPP", product_type, TRUE, packaged, has_xmlns, "EOF")

IERSProduct(product_type, packaged) ==
    EOFClass("IERS", product_type, FALSE, packaged, FALSE, "txt")

SAFEPattern(self) ==
    JoinPattern(<<
        <<Bol>> \o MissionAtoms,
        <<Lit(self.product_type, "product_type")>>,
        <<Cls("dT", 15, "validity_start")>>,
        <<Lit("N", ""), Cls("d", 4, "processing_baseline")>>,
        <<Lit("R", ""), Cls("d", 3, "relative_orbit")>>,
        <<Lit("T", ""), Cls("any", 5, "tile_number")>>,
        <<Cls("dT", 15, "creation_date")>> >>)
    \o (IF self.packaged THEN <<Lit(".SAFE.zip", ""), Eol>>
        ELSE <<Lit(".SAFE", ""), Eol>>)

PDIPattern(self) ==
    JoinPattern(
        << <<Bol>> \o MissionAtoms,
           <<Cls("any", 4, "file_class")>>,
           <<Lit(self.product_type, "product_type")>>,
           <<Cls("any", 4, "site_centre")>>,
           <<Cls("dT", 15, "creation_date")>> >>
        \o (IF EndsWith(self.product_type, "DS")
            THEN << <<Lit("S", ""), Cls("dT", 15, "validity_start")>> >>
            ELSE IF EndsWith(self.product_type, "TL")
            THEN << <<Lit("A", ""), Cls("d", 6, "absolute_orbit")>>,
                    <<Lit("T", ""), Cls("any", 5, "tile_number")>> >>
            ELSE <<>>)
        \o << <<Lit("N", ""), Cls("d", 2, "processing_baseline"),
                Lit(".", "processing_baseline"),
                Cls("d", 2, "processing_baseline")>> >>)
    \o (IF self.packaged THEN <<Lit(".tar", ""), Eol>> ELSE <<Eol>>)

\* the EOF grammar with any ten characters for the product type
EOFBasePieces_anytype(self) ==
    << MissionAtoms,
       <<Cls("any", 4, "file_class")>>,
       <<Cls("any", 10, "product_type")>>,
       <<Cls("any", 4, "processing_facility")>>,
       <<Cls("dT", 15, "creation_date")>>,
       <<Lit("V", ""), Cls("dT", 15, "validity_start")>>,
       <<Cls("dT", 15, "validity_stop")>> >>

EOFBasePieces(self) ==
    << MissionAtoms,
       <<Cls("any", 4, "file_class")>>,
       <<Lit(self.product_type, "product_type")>>,
       <<Cls("any", 4, "processing_facility")>>,
       <<Cls("dT", 15, "creation_date")>>,
       <<Lit("V", ""), Cls("dT", 15, "validity_start")>>,
       <<Cls("dT", 15, "validity_stop")>> >>

GIPPBasePieces(self) ==
    EOFBasePieces(self)
    \o << <<Lit("B", ""),
            Alt(<<"00", "01", "02", "03", "04", "05", "06", "07", "08", "8A",
                  "09", "10", "11", "12">>, "band")>> >>

EOFPattern(self) ==
    JoinPattern(IF self.cls = "GIPP" THEN GIPPBasePieces(self)
                ELSE EOFBasePieces(self))
    \o (IF self.is_multi_file_product
        THEN (IF self.packaged THEN <<Lit(".TGZ", ""), Eol>> ELSE <<>>)
        ELSE (IF self.packaged THEN <<Lit("." \o self.ext \o ".zip", ""), Eol>>
              ELSE <<Lit("." \o self.ext, ""), Eol>>))

\* self.filename_pattern
filename_pattern(self) ==
    CASE self.cls = "SAFE" -> SAFEPattern(self)
      [] self.cls = "PDI" -> PDIPattern(self)
      [] OTHER -> EOFPattern(self)

\* Sentinel2Product.parse_filename: the groupdict, or None
parse_filename(self, filename) ==
    IF re_match(filename_pattern(self), basename(filename))
    THEN [none |-> FALSE, d |-> groupdict(filename_pattern(self), basename(filename))]
    ELSE [none |-> TRUE, d |-> <<>>]

\* Sentinel2Product.identify matching the path instead of its basename
Sentinel2Product_identify_path(self, paths) ==
    IF Len(paths) # 1 THEN FALSE
    ELSE re_match(filename_pattern(self), paths[1])

Sentinel2Product_identify(self, paths) ==
    IF Len(paths) # 1 THEN FALSE
    ELSE re_match(filename_pattern(self), basename(paths[1]))

EOFProduct_identify(self, paths) ==
    IF self.is_multi_file_product /\ ~self.packaged
    THEN IF Len(paths) # 2 THEN FALSE
         ELSE LET sp == sorted(paths)
              IN IF ~re_match(filename_pattern(self) \o <<Lit(".DBL", ""), Eol>>,
                              basename(sp[1]))
                 THEN FALSE
                 ELSE IF ~re_match(filename_pattern(self) \o <<Lit(".HDR", ""), Eol>>,
                                   basename(sp[2]))
                 THEN FALSE
                 ELSE TRUE
    ELSE IF Len(paths) # 1 THEN FALSE
         ELSE re_match(filename_pattern(self), basename(paths[1]))

identify(self, paths) ==
    IF self.cls \in {"SAFE", "PDI"} THEN Sentinel2Product_identify(self, paths)
    ELSE EOFProduct_identify(self, paths)

(***************************************************************************)
(* datetime                                                                *)
(***************************************************************************)

datetime(y, mo, d, h, mi, sec, us) ==
    [year |-> y, month |-> mo, day |-> d, hour |-> h, minute |-> mi,
     second |-> sec, microsecond |-> us]

\* datetime.max
datetime_max == datetime(9999, 12, 31, 23, 59, 59, 999999)

IsLeap(y) == (y % 4 = 0 /\ y % 100 # 0) \/ y % 400 = 0

DaysInMonth(y, mo) ==
    IF mo = 2 THEN (IF IsLeap(y) THEN 29 ELSE 28)
    ELSE IF mo \in {4, 6, 9, 11} THEN 30 ELSE 31

Returned(v) == [exc |-> "", v |-> v]
Raised(e) == [exc |-> e, v |-> ""]

\* the datetime constructor on the fields that strptime found
MakeDatetime(y, mo, d, h, mi, sec) ==
    IF y >= 1 /\ d <= DaysInMonth(y, mo) /\ sec <= 59
    THEN Returned(datetime(y, mo, d, h, mi, sec, 0))
    ELSE Raised("ValueError")

\* whether text is what directive %m, %d, %H, %M or %S converts, all of it
DirectiveOK(text, lo, hi) ==
    /\ Len(text) \in {1, 2}
    /\ AllDigits(text)
    /\ IntOf(text) >= lo
    /\ IntOf(text) <= hi

\* datetime.strptime(s, "%Y%m%dT%H%M%S") for a string of 15 characters (the
\* only strings it is called with are [\dT]{15} groups): with no separator
\* between the fields every field must have its full width
strptime_compact(s) ==
    IF /\ Len(s) = 15
       /\ AllDigits(Slice(s, 0, 8))
       /\ CharAt(s, 9) = "T"
       /\ AllDigits(Slice(s, 9, 15))
       /\ DirectiveOK(Slice(s, 4, 6), 1, 12)
       /\ DirectiveOK(Slice(s, 6, 8), 1, 31)
       /\ DirectiveOK(Slice(s, 9, 11), 0, 23)
       /\ DirectiveOK(Slice(s, 11, 13), 0, 59)
       /\ DirectiveOK(Slice(s, 13, 15), 0, 61)
    THEN MakeDatetime(IntOf(Slice(s, 0, 4)), IntOf(Slice(s, 4, 6)),
                      IntOf(Slice(s, 6, 8)), IntOf(Slice(s, 9, 11)),
                      IntOf(Slice(s, 11, 13)), IntOf(Slice(s, 13, 15)))
    ELSE Raised("ValueError")

\* index of the first occurrence of character c in s after position from
\* (0-based), 0 when there is none
IndexAfter(s, c, from) ==
    LET I == {i \in (from + 1)..Len(s) : CharAt(s, i) = c}
    IN IF I = {} THEN 0 ELSE CHOOSE i \in I : \A j \in I : i <= j

\* datetime.strptime(s, "UTC=%Y-%m-%dT%H:%M:%S"): the fields are the runs
\* between the separators, each one converted whole by its directive
strptime_utc(s) ==
    LET i1 == IndexAfter(s, "-", 4)
        i2 == IndexAfter(s, "-", i1)
        i3 == IndexAfter(s, "T", i2)
        i4 == IndexAfter(s, ":", i3)
        i5 == IndexAfter(s, ":", i4)
        Y == Slice(s, 4, i1 - 1)
        Mo == Slice(s, i1, i2 - 1)
        D == Slice(s, i2, i3 - 1)
        H == Slice(s, i3, i4 - 1)
        Mi == Slice(s, i4, i5 - 1)
        S == SliceFrom(s, i5)
    IN IF /\ StartsWith(s, "UTC=")
          /\ i1 > 0 /\ i2 > 0 /\ i3 > 0 /\ i4 > 0 /\ i5 > 0
          /\ Len(Y) = 4 /\ AllDigits(Y)
          /\ DirectiveOK(Mo, 1, 12)
          /\ DirectiveOK(D, 1, 31)
          /\ DirectiveOK(H, 0, 23)
          /\ DirectiveOK(Mi, 0, 59)
          /\ DirectiveOK(S, 0, 61)
       THEN MakeDatetime(IntOf(Y), IntOf(Mo), IntOf(D), IntOf(H), IntOf(Mi), IntOf(S))
       ELSE Raised("ValueError")

\* the decimal digits of n, at least width of them
RECURSIVE Decimal(_, _)
Decimal(n, width) ==
    IF n < 10 /\ width <= 1 THEN CharAt(Digits, n + 1)
    ELSE Decimal(n \div 10, width - 1) \o CharAt(Digits, (n % 10) + 1)

\* dt.strftime("%Y%m%d").  %m and %d are two digits; %Y is what the C
\* library makes of it: four digits, or the bare number for a year below
\* 1000 (pads_year tells which).
strftime_Ymd(dt, pads_year) ==
    Decimal(dt.year, IF pads_year THEN 4 ELSE 1)
    \o Decimal(dt.month, 2) \o Decimal(dt.day, 2)

(***************************************************************************)
(* The files of a product, as far as the plugin reads them.  A document    *)
(* is a record: whether it is well-formed XML, the tag of its root, whether *)
(* it declares the S2 namespace, and the texts of the header fields.  A    *)
(* world tells what is at the paths of one call: the document that every   *)
(* member holds, the names of the members of the container (an archive, or *)
(* a directory) in the order the container lists them, and whether the     *)
(* paths are directories.                                                  *)
(***************************************************************************)

NoElement == [none |-> TRUE, tag |-> "", doc |-> <<>>]

\* parse(file).getroot()
getroot(doc) == [none |-> FALSE, tag |-> doc.root, doc |-> doc]

\* element.find("./Earth_Explorer_Header", ns)
find_header(self, root) ==
    IF root.tag = "Earth_Explorer_File" /\ root.doc.xmlns = self.xml_namespace
    THEN [none |-> FALSE, tag |-> "Earth_Explorer_Header", doc |-> root.doc]
    ELSE NoElement

\* header.find("./Fixed_Header/" + field, ns).text
find_text(self, header, field) ==
    IF header.none THEN Raised("AttributeError")
    ELSE IF header.tag = "Earth_Explorer_Header"
            /\ header.doc.xmlns = self.xml_namespace
    THEN Returned(header.doc[field])
    ELSE Raised("AttributeError")

\* what a reader returns: the element or the exception (and then no
\* element), and the names of the members it opened
Read(r, opened) ==
    [exc |-> r.exc, v |-> IF r.exc = "" THEN r.v ELSE NoElement, opened |-> opened]

\* open a member of the container and parse it
parse_member(world, name) ==
    IF name \notin Range(world.listing) THEN Read(Raised("KeyError"), {})
    ELSE IF ~world.doc.xml THEN Read(Raised("ParseError"), {name})
    ELSE Read(Returned(getroot(world.doc)), {name})

\* open the file at a path of the call and parse it
parse_file(world, filepath) ==
    IF ~world.doc.xml THEN Read(Raised("ParseError"), {filepath})
    ELSE Read(Returned(getroot(world.doc)), {filepath})

\* Sentinel2Product.read_xml_component
read_xml_component(self, filepath, componentpath, world) ==
    IF self.packaged
    THEN IF "is_multi_file_product" \notin self.attrs
         THEN Read(Raised("AttributeError"), {})
         ELSE LET cp == IF ~self.is_multi_file_product
                        THEN join(splitext(basename(filepath))[1], componentpath)
                        ELSE componentpath
              IN IF self.package_format = "zip" THEN parse_member(world, cp)
                 ELSE IF self.package_format = "tar" THEN parse_member(world, cp)
                 ELSE Read(Raised("Exception"), {})
    ELSE IF componentpath \in Range(world.listing)
         THEN parse_file(world, join(filepath, componentpath))
         ELSE Read(Raised("FileNotFoundError"), {})

\* EOFProduct.read_xml_header
read_xml_header(self, filepath, world) ==
    IF self.is_multi_file_product
    THEN IF self.packaged
         THEN parse_member(world, splitext(basename(filepath))[1] \o ".HDR")
         ELSE parse_file(world, filepath)
    ELSE LET r == IF self.packaged
                  THEN parse_member(world, splitext(basename(filepath))[1] \o ".EOF")
                  ELSE parse_file(world, filepath)
         IN IF r.exc # "" THEN r
            ELSE Read(Returned(find_header(self, r.v)), r.opened)

(***************************************************************************)
(* Property bags: a Struct is the function from the names of the           *)
(* attributes that were set ("core.product_name", ...) to their values.    *)
(***************************************************************************)

Struct == <<>>

Set(properties, name, value) == (name :> value) @@ properties

Has(properties, name) == name \in DOMAIN properties

\* the mission of a filename as it is written
NormalizedMission_aswritten(mission) == mission

\* the mission of a filename, with the "_" placeholder dropped
NormalizedMission(mission) ==
    IF CharAt(mission, 3) = "_" THEN Slice(mission, 0, 2) ELSE mission

\* what analyze returns: the exception or the properties, and the members
\* that were opened on the way
Analyzed(exc, properties, opened) ==
    [exc |-> exc, v |-> properties, opened |-> opened]

\* SAFEProduct.analyze(paths, filename_only=True)
SAFEProduct_analyze(self, paths) ==
    IF Len(paths) = 0 THEN Analyzed("IndexError", Struct, {})
    ELSE
    LET inpath == paths[1]
        name_attrs == parse_filename(self, inpath)
        name1 == splitext(basename(inpath))[1]
        product_name == IF self.packaged THEN splitext(name1)[1] ELSE name1
    IN  IF name_attrs.none THEN Analyzed("TypeError", Struct, {})
        ELSE
        LET validity_start == strptime_compact(name_attrs.d.validity_start)
            creation_date == strptime_compact(name_attrs.d.creation_date)
        IN  IF validity_start.exc # "" THEN Analyzed("ValueError", Struct, {})
            ELSE IF creation_date.exc # "" THEN Analyzed("ValueError", Struct, {})
            ELSE Analyzed("",
                ("core.product_name" :> product_name) @@
                ("core.validity_start" :> validity_start.v) @@
                ("sentinel2.mission" :> NormalizedMission(name_attrs.d.mission)) @@
                ("sentinel2.processing_baseline" :> IntOf(name_attrs.d.processing_baseline)) @@
                ("sentinel2.relative_orbit" :> IntOf(name_attrs.d.relative_orbit)) @@
                ("sentinel2.tile_number" :> name_attrs.d.tile_number) @@
                ("core.creation_date" :> creation_date.v), {})

\* PDIProduct.analyze(paths, filename_only=True)
PDIProduct_analyze(self, paths) ==
    IF Len(paths) = 0 THEN Analyzed("IndexError", Struct, {})
    ELSE
    LET inpath == paths[1]
        name_attrs == parse_filename(self, inpath)
        product_name == IF self.packaged THEN splitext(basename(inpath))[1]
                        ELSE basename(inpath)
    IN  IF name_attrs.none THEN Analyzed("TypeError", Struct, {})
        ELSE
        LET has_start == "validity_start" \in DOMAIN name_attrs.d
            validity_start == IF has_start
                              THEN strptime_compact(name_attrs.d.validity_start)
                              ELSE Returned(datetime_max)
            creation_date == strptime_compact(name_attrs.d.creation_date)
        IN  IF validity_start.exc # "" THEN Analyzed("ValueError", Struct, {})
            ELSE IF creation_date.exc # "" THEN Analyzed("ValueError", Struct, {})
            ELSE Analyzed("",
                ("core.product_name" :> product_name) @@
                (IF has_start THEN ("core.validity_start" :> validity_start.v)
                 ELSE Struct) @@
                ("core.creation_date" :> creation_date.v) @@
                ("sentinel2.mission" :> NormalizedMission(name_attrs.d.mission)) @@
                ("sentinel2.processing_facility" :> name_attrs.d.site_centre) @@
                ("sentinel2.processing_baseline" :>
                    IntOf(RemoveDots(name_attrs.d.processing_baseline))) @@
                (IF "absolute_orbit" \in DOMAIN name_attrs.d
                 THEN ("sentinel2.absolute_orbit" :> IntOf(name_attrs.d.absolute_orbit))
                 ELSE Struct) @@
                (IF "tile_number" \in DOMAIN name_attrs.d
                 THEN ("sentinel2.tile_number" :> name_attrs.d.tile_number)
                 ELSE Struct), {})

\* the filename part of EOFProduct.analyze with the validity stop always
\* parsed as a date
EOFFilenameProperties_nosentinel(name_attrs, inpath) ==
    LET has_creation == "creation_date" \in DOMAIN name_attrs
        creation_date == IF has_creation THEN strptime_compact(name_attrs.creation_date)
                         ELSE Returned(datetime_max)
        validity_start == strptime_compact(name_attrs.validity_start)
        validity_stop == strptime_compact(name_attrs.validity_stop)
    IN  IF creation_date.exc # "" \/ validity_start.exc # "" \/ validity_stop.exc # ""
        THEN Raised("ValueError")
        ELSE Returned(
            ("core.product_name" :> splitext(basename(inpath))[1]) @@
            (IF has_creation THEN ("core.creation_date" :> creation_date.v)
             ELSE Struct) @@
            ("core.validity_start" :> validity_start.v) @@
            ("core.validity_stop" :> validity_stop.v) @@
            ("sentinel2.mission" :> NormalizedMission(name_attrs.mission)) @@
            (IF "processing_facility" \in DOMAIN name_attrs
             THEN ("sentinel2.processing_facility" :> name_attrs.processing_facility)
             ELSE Struct))

\* the filename part of EOFProduct.analyze (lines 527-544), on the parsed
\* filename and the path used for the metadata
EOFFilenameProperties(name_attrs, inpath) ==
    LET has_creation == "creation_date" \in DOMAIN name_attrs
        creation_date == IF has_creation THEN strptime_compact(name_attrs.creation_date)
                         ELSE Returned(datetime_max)
        validity_start == strptime_compact(name_attrs.validity_start)
        validity_stop == IF name_attrs.validity_stop = "99999999T999999"
                         THEN Returned(datetime_max)
                         ELSE strptime_compact(name_attrs.validity_stop)
    IN  IF creation_date.exc # "" \/ validity_start.exc # "" \/ validity_stop.exc # ""
        THEN Raised("ValueError")
        ELSE Returned(
            ("core.product_name" :> splitext(basename(inpath))[1]) @@
            (IF has_creation THEN ("core.creation_date" :> creation_date.v)
             ELSE Struct) @@
            ("core.validity_start" :> validity_start.v) @@
            ("core.validity_stop" :> validity_stop.v) @@
            ("sentinel2.mission" :> NormalizedMission(name_attrs.mission)) @@
            (IF "processing_facility" \in DOMAIN name_attrs
             THEN ("sentinel2.processing_facility" :> name_attrs.processing_facility)
             ELSE Struct))

\* the header part of EOFProduct.analyze that leaves the processing facility
\* of the filename in place
EOFHeaderProperties_keepfacility(self, header, properties) ==
    LET validity_start == find_text(self, header, "Validity_Start")
        validity_stop == find_text(self, header, "Validity_Stop")
        creation_date == find_text(self, header, "Creation_Date")
        creator == find_text(self, header, "Creator")
        creator_version == find_text(self, header, "Creator_Version")
    IN  IF validity_start.exc # "" THEN Raised(validity_start.exc)
        ELSE
        LET start == strptime_utc(validity_start.v)
            stop == IF validity_stop.v = "UTC=9999-99-99T99:99:99"
                    THEN Returned(datetime_max)
                    ELSE strptime_utc(validity_stop.v)
            created == strptime_utc(creation_date.v)
        IN  IF start.exc # "" \/ stop.exc # "" \/ created.exc # ""
            THEN Raised("ValueError")
            ELSE Returned(
                ("core.validity_start" :> start.v) @@
                ("core.validity_stop" :> stop.v) @@
                ("core.creation_date" :> created.v) @@
                ("sentinel2.processor_name" :> creator.v) @@
                ("sentinel2.processor_version" :> creator_version.v) @@
                properties)

\* the header part of EOFProduct.analyze (lines 547-560)
EOFHeaderProperties(self, header, properties) ==
    LET validity_start == find_text(self, header, "Validity_Start")
        validity_stop == find_text(self, header, "Validity_Stop")
        creation_date == find_text(self, header, "Creation_Date")
        system == find_text(self, header, "System")
        creator == find_text(self, header, "Creator")
        creator_version == find_text(self, header, "Creator_Version")
    IN  IF validity_start.exc # "" THEN Raised(validity_start.exc)
        ELSE
        LET start == strptime_utc(validity_start.v)
            stop == IF validity_stop.v = "UTC=9999-99-99T99:99:99"
                    THEN Returned(datetime_max)
                    ELSE strptime_utc(validity_stop.v)
            created == strptime_utc(creation_date.v)
        IN  IF start.exc # "" \/ stop.exc # "" \/ created.exc # ""
            THEN Raised("ValueError")
            ELSE Returned(
                ("core.validity_start" :> start.v) @@
                ("core.validity_stop" :> stop.v) @@
                ("core.creation_date" :> created.v) @@
                ("sentinel2.processing_facility" :> system.v) @@
                ("sentinel2.processor_name" :> creator.v) @@
                ("sentinel2.processor_version" :> creator_version.v) @@
                properties)

EOFProduct_analyze(self, paths, filename_only, world) ==
    IF Len(paths) = 0 THEN Analyzed("IndexError", Struct, {})
    ELSE
    LET pair == self.is_multi_file_product /\ ~self.packaged
        name_attrs == IF pair
                      THEN parse_filename(self, splitext(basename(paths[1]))[1])
                      ELSE parse_filename(self, paths[1])
        \* use the .HDR for metadata extraction
        inpath == IF pair THEN sorted(paths)[Len(paths)] ELSE paths[1]
    IN  IF name_attrs.none THEN Analyzed("TypeError", Struct, {})
        ELSE
        LET named == EOFFilenameProperties(name_attrs.d, inpath)
        IN  IF named.exc # "" THEN Analyzed(named.exc, Struct, {})
            ELSE IF filename_only THEN Analyzed("", named.v, {})
            ELSE
            LET header == read_xml_header(self, inpath, world)
            IN  IF header.exc # "" THEN Analyzed(header.exc, Struct, header.opened)
                ELSE
                LET full == EOFHeaderProperties(self, header.v, named.v)
                IN  IF full.exc # "" THEN Analyzed(full.exc, Struct, header.opened)
                    ELSE Analyzed("", full.v, header.opened)

\* IERSProduct.analyze handing filename_only on
IERSProduct_analyze_asasked(self, paths, filename_only, world) ==
    EOFProduct_analyze(self, paths, filename_only, world)

IERSProduct_analyze(self, paths, filename_only, world) ==
    EOFProduct_analyze(self, paths, TRUE, world)

\* analyze of the class of self; for SAFE and PDI products the call with
\* filename_only=True
analyze(self, paths, filename_only, world) ==
    CASE self.cls = "SAFE" -> SAFEProduct_analyze(self, paths)
      [] self.cls = "PDI" -> PDIProduct_analyze(self, paths)
      [] self.cls = "IERS" -> IERSProduct_analyze(self, paths, filename_only, world)
      [] OTHER -> EOFProduct_analyze(self, paths, filename_only, world)

\* Sentinel2Product.archive_path
archive_path(self, properties, pads_year) ==
    IF ~Has(properties, "core.validity_start") THEN Raised("AttributeError")
    ELSE IF ~Has(properties, "sentinel2.mission") THEN Raised("AttributeError")
    ELSE LET validity_start ==
                 strftime_Ymd(properties["core.validity_start"], pads_year)
         IN Returned(join(join(join(join(properties["sentinel2.mission"],
                                         self.product_type),
                                    Slice(validity_start, 0, 4)),
                               Slice(validity_start, 4, 6)),
                          Slice(validity_start, 6, 8)))

(***************************************************************************)
(* The registry                                                            *)
(***************************************************************************)

_product_types ==
    [pt \in Range(USER_PRODUCT_TYPES) |-> SAFEProduct(pt, FALSE)] @@
    [pt \in Range(PDI_PRODUCT_TYPES) |-> PDIProduct(pt, FALSE)] @@
    [pt \in Range(AUX_EOF_PRODUCT_TYPES) |-> EOFProduct(pt, FALSE, FALSE)] @@
    [pt \in Range(AUX_HDR_DBL_PRODUCT_TYPES) |-> EOFProduct(pt, TRUE, FALSE)] @@
    [pt \in DOMAIN GIPP_PRODUCT_TYPES |->
        GIPPProduct(pt, GIPP_PRODUCT_TYPES[pt], FALSE)] @@
    [pt \in Range(IERS_PRODUCT_TYPES) |-> IERSProduct(pt, FALSE)]

product_types == DOMAIN _product_types

product_type_plugin(product_type) == _product_types[product_type]


(***************************************************************************)
(* Export.  fs is the file system under the target directories: a function *)
(* from absolute paths to what was written there.                          *)
(***************************************************************************)

\* path[rootlen:] with rootlen = len(os.path.dirname(path)) + 1
arcname(path) == SliceFrom(path, Len(dirname(path)) + 1)

\* the members archive.add(path, arcname) adds: the entry itself and, for a
\* directory, its files in sorted order
TarMembers(path, world) ==
    IF world.isdir
    THEN <<arcname(path)>> \o
         [i \in 1..Len(world.listing) |->
            SliceFrom(join(path, sorted(world.listing)[i]), Len(dirname(path)) + 1)]
    ELSE <<arcname(path)>>

\* the members the loop of package_zip writes for one path: the files that
\* os.walk finds under a directory, or the file itself
ZipMembers(path, world) ==
    IF world.isdir
    THEN [i \in 1..Len(world.listing) |->
            SliceFrom(join(path, world.listing[i]), Len(dirname(path)) + 1)]
    ELSE <<arcname(path)>>

RECURSIVE AllTarMembers(_, _)
AllTarMembers(paths, world) ==
    IF Len(paths) = 0 THEN <<>>
    ELSE TarMembers(Head(paths), world) \o AllTarMembers(Tail(paths), world)

RECURSIVE AllZipMembers(_, _)
AllZipMembers(paths, world) ==
    IF Len(paths) = 0 THEN <<>>
    ELSE ZipMembers(Head(paths), world) \o AllZipMembers(Tail(paths), world)

Container(kind, compression, members) ==
    [kind |-> kind, compression |-> compression, members |-> members]

Exported(exc, v, files) == [exc |-> exc, v |-> v, fs |-> files]

\* package_tar: mode "w" or "w:gz" truncates an existing file
package_tar(paths, target_filepath, compression, world, files) ==
    Exported("", target_filepath,
             (target_filepath :> Container("tar", compression, AllTarMembers(paths, world)))
             @@ files)

\* package_zip: mode "x" creates the file and fails when it exists
package_zip(paths, target_filepath, world, files) ==
    IF target_filepath \in DOMAIN files
    THEN Exported("FileExistsError", "", files)
    ELSE Exported("", target_filepath,
                  (target_filepath :>
                      Container("zip", "ZIP_DEFLATED,compresslevel=1",
                                AllZipMembers(paths, world)))
                  @@ files)

\* muninn.util.copy_path(source, target_path): the source now also exists
\* in the target directory under its own name
copy_path(source, target_path, files) ==
    (join(abspath(target_path), basename(source)) :>
        Container("copy", "", <<source>>)) @@ files

\* the branch of the four export methods for a product that is packaged in
\* the format asked for
CopyPackaged(target_path, paths, files) ==
    IF Len(paths) # 1 THEN Exported("AssertionError", "", files)
    ELSE Exported("", join(target_path, basename(paths[1])),
                  copy_path(paths[1], target_path, files))

physical_name(properties) == properties["core.physical_name"]

SAFEProduct_export_zip(self, properties, target_path, paths, world, files) ==
    IF self.packaged THEN CopyPackaged(target_path, paths, files)
    ELSE IF ~Has(properties, "core.physical_name")
    THEN Exported("AttributeError", "", files)
    ELSE package_zip(paths,
                     join(abspath(target_path), physical_name(properties) \o ".zip"),
                     world, files)

PDIProduct_export_tar(self, properties, target_path, paths, world, files) ==
    IF self.packaged THEN CopyPackaged(target_path, paths, files)
    ELSE IF ~Has(properties, "core.physical_name")
    THEN Exported("AttributeError", "", files)
    ELSE package_tar(paths,
                     join(abspath(target_path), physical_name(properties) \o ".tar"),
                     "", world, files)

EOFProduct_export_tgz(self, properties, target_path, paths, world, files) ==
    IF self.packaged /\ self.package_format = "tgz"
    THEN CopyPackaged(target_path, paths, files)
    ELSE IF ~Has(properties, "core.physical_name")
    THEN Exported("AttributeError", "", files)
    ELSE package_tar(paths,
                     join(abspath(target_path), physical_name(properties) \o ".TGZ"),
                     "gz", world, files)

EOFProduct_export_zip(self, properties, target_path, paths, world, files) ==
    IF self.packaged /\ self.package_format = "zip"
    THEN CopyPackaged(target_path, paths, files)
    ELSE IF ~Has(properties, "core.physical_name")
    THEN Exported("AttributeError", "", files)
    ELSE package_zip(paths,
                     join(abspath(target_path), physical_name(properties) \o ".zip"),
                     world, files)

(***************************************************************************)
(* The inputs of the calls.  A file name is written from a name            *)
(* description: the layout of its fields, the texts of the fields, what    *)
(* precedes and follows them.  The description stays with the call, so     *)
(* that what a call made of a name can be compared with what the name was  *)
(* written from.                                                           *)
(***************************************************************************)

\* the longest list of paths handed to a call
MaxPaths == 2

\* date texts of file names: whether the text has the shape [\dT]{15},
\* whether it is a date, and the date
NameDates ==
    ("20210305T123456" :> [shape |-> TRUE, ok |-> TRUE,
                           value |-> datetime(2021, 3, 5, 12, 34, 56, 0)]) @@
    ("20210306T010203" :> [shape |-> TRUE, ok |-> TRUE,
                           value |-> datetime(2021, 3, 6, 1, 2, 3, 0)]) @@
    ("20240229T235959" :> [shape |-> TRUE, ok |-> TRUE,
                           value |-> datetime(2024, 2, 29, 23, 59, 59, 0)]) @@
    ("00050305T000000" :> [shape |-> TRUE, ok |-> TRUE,
                           value |-> datetime(5, 3, 5, 0, 0, 0, 0)]) @@
    ("99999999T999999" :> [shape |-> TRUE, ok |-> FALSE, value |-> datetime_max]) @@
    ("99999999T999998" :> [shape |-> TRUE, ok |-> FALSE, value |-> datetime_max]) @@
    ("20211305T000000" :> [shape |-> TRUE, ok |-> FALSE, value |-> datetime_max]) @@
    ("TTTTTTTTTTTTTTT" :> [shape |-> TRUE, ok |-> FALSE, value |-> datetime_max]) @@
    ("2021-03-05T1234" :> [shape |-> FALSE, ok |-> FALSE, value |-> datetime_max])

\* date texts of header documents: whether the text is a date, and the date
HeaderDates ==
    ("UTC=2021-03-04T00:00:00" :> [ok |-> TRUE, value |-> datetime(2021, 3, 4, 0, 0, 0, 0)]) @@
    ("UTC=2022-12-31T23:59:59" :> [ok |-> TRUE, value |-> datetime(2022, 12, 31, 23, 59, 59, 0)]) @@
    ("UTC=2021-03-07T08:09:10" :> [ok |-> TRUE, value |-> datetime(2021, 3, 7, 8, 9, 10, 0)]) @@
    ("UTC=0005-03-05T00:00:00" :> [ok |-> TRUE, value |-> datetime(5, 3, 5, 0, 0, 0, 0)]) @@
    ("UTC=9999-99-99T99:99:99" :> [ok |-> FALSE, value |-> datetime_max]) @@
    ("UTC=2021-02-30T00:00:00" :> [ok |-> FALSE, value |-> datetime_max]) @@
    ("2021-03-04T00:00:00" :> [ok |-> FALSE, value |-> datetime_max])

NameSpec(layout, type, suffix) ==
    [layout |-> layout, type |-> type, mission |-> "S2A",
     start |-> "20210305T123456", stop |-> "20240229T235959",
     creation |-> "20210306T010203", band |-> "8A",
     suffix |-> suffix, prefix |-> "", tail |-> ""]

\* the file name written from a name description
Render(ns) ==
    ns.prefix \o ns.mission \o "_" \o
    (CASE ns.layout = "SAFE" ->
            ns.type \o "_" \o ns.start \o "_N0300_R065_T32TMT_" \o ns.creation
       [] ns.layout = "PDI_DS" ->
            "OPER_" \o ns.type \o "_VGS4_" \o ns.creation \o "_S" \o ns.start
            \o "_N02.09"
       [] ns.layout = "PDI_TL" ->
            "OPER_" \o ns.type \o "_VGS4_" \o ns.creation
            \o "_A012345_T32TMT_N02.09"
       [] ns.layout = "EOF" ->
            "OPER_" \o ns.type \o "_PDMC_" \o ns.creation \o "_V" \o ns.start
            \o "_" \o ns.stop
       [] OTHER ->
            "OPER_" \o ns.type \o "_MPC__" \o ns.creation \o "_V" \o ns.start
            \o "_" \o ns.stop \o "_B" \o ns.band)
    \o ns.suffix \o ns.tail

\* the path of a path description
PathOf(ps) == ps.dir \o Render(ps.ns)

PathsOf(specs) == [i \in 1..Len(specs) |-> PathOf(specs[i])]

LayoutOf(self) ==
    CASE self.cls = "SAFE" -> "SAFE"
      [] self.cls = "PDI" ->
            IF EndsWith(self.product_type, "DS") THEN "PDI_DS" ELSE "PDI_TL"
      [] self.cls = "GIPP" -> "GIPP"
      [] OTHER -> "EOF"

IsPair(self) == self.cls \in {"EOF", "GIPP"} /\ self.is_multi_file_product /\ ~self.packaged

\* the suffixes of the files of a product of the plugin
SuffixesOf(self) ==
    CASE self.cls = "SAFE" -> IF self.packaged THEN {".SAFE.zip"} ELSE {".SAFE"}
      [] self.cls = "PDI" -> IF self.packaged THEN {".tar"} ELSE {""}
      [] self.cls = "IERS" -> IF self.packaged THEN {".txt.zip"} ELSE {".txt"}
      [] self.is_multi_file_product ->
            IF self.packaged THEN {".TGZ"} ELSE {".DBL", ".HDR"}
      [] OTHER -> IF self.packaged THEN {".EOF.zip"} ELSE {".EOF"}

AllSuffixes ==
    {"", ".SAFE", ".SAFE.zip", ".tar", ".EOF", ".EOF.zip", ".DBL", ".HDR",
     ".TGZ", ".txt", ".txt.zip", ".zip"}

\* a product type of the same layout as the plugin's, and one of another
OtherTypes(self) ==
    CASE self.cls = "SAFE" -> {"MSIL1C", "MSIL2A"} \ {self.product_type}
      [] self.cls = "PDI" ->
            IF EndsWith(self.product_type, "DS")
            THEN {"MSI_L1C_DS", "MSI_L2A_DS"} \ {self.product_type}
            ELSE {"MSI_L1C_TL", "MSI_L2A_TL"} \ {self.product_type}
      [] self.cls = "GIPP" -> {"GIP_ATMIMA", "GIP_ATMSAD", "AUX_GNSSRD"} \ {self.product_type}
      [] OTHER -> {"AUX_POEORB", "AUX_GNSSRD", "AUX_PROQUA", "AUX_UT1UTC"}
                  \ {self.product_type}

\* the names that are tried on a plugin: a name of a product of the plugin
\* and the names that differ from it in one respect
Names(self) ==
    LET Own == {NameSpec(LayoutOf(self), self.product_type, x) : x \in SuffixesOf(self)}
    IN  UNION {
          {c}
          \cup {[c EXCEPT !.mission = m] : m \in {"S2_", "S2B", "S2C", "S2D", "S2E", "S1A"}}
          \cup {[c EXCEPT !.start = d] :
                  d \in {"00050305T000000", "20211305T000000", "2021-03-05T1234"}}
          \cup {[c EXCEPT !.stop = d] : d \in {"99999999T999999", "99999999T999998"}}
          \cup {[c EXCEPT !.creation = d] : d \in {"TTTTTTTTTTTTTTT"}}
          \cup {[c EXCEPT !.band = b] : b \in {"12", "13"}}
          \cup {[c EXCEPT !.suffix = x] : x \in AllSuffixes}
          \cup {[c EXCEPT !.tail = t] : t \in {"\n", "x", ".zip"}}
          \cup {[c EXCEPT !.prefix = p] : p \in {"x", "_"}}
          \cup {[c EXCEPT !.type = t] : t \in OtherTypes(self)}
          \cup {[c EXCEPT !.layout = l] :
                  l \in {"SAFE", "PDI_DS", "PDI_TL", "EOF", "GIPP"}}
          : c \in Own}

\* the names that are combined into lists of two and more paths
PairNames(self) ==
    LET Own == {NameSpec(LayoutOf(self), self.product_type, x) : x \in SuffixesOf(self)}
    IN  IF IsPair(self)
        THEN Own \cup {[c EXCEPT !.mission = "S2B"] : c \in Own}
        ELSE Own

PathSpec(dir, ns) == [dir |-> dir, ns |-> ns]

RECURSIVE Lists(_, _)
\* the lists of n elements of S
Lists(S, n) ==
    IF n = 0 THEN {<<>>}
    ELSE {<<x>> \o l : x \in S, l \in Lists(S, n - 1)}

\* the lists of path descriptions that are tried on a plugin
PathSpecs(self) ==
    {<<>>}
    \cup {<<PathSpec(d, ns)>> : d \in {"", "a/", "/in.d/b/"}, ns \in Names(self)}
    \cup UNION {Lists({PathSpec(d, ns) : d \in {"a/", "b/"}, ns \in PairNames(self)}, n)
                : n \in 2..MaxPaths}

\* the plugin of a product type as the registry builds it, and the same
\* class constructed with packaged=True
PackagedPlugin(self) ==
    CASE self.cls = "SAFE" -> SAFEProduct(self.product_type, TRUE)
      [] self.cls = "PDI" -> PDIProduct(self.product_type, TRUE)
      [] self.cls = "GIPP" -> GIPPProduct(self.product_type, self.xml_namespace, TRUE)
      [] self.cls = "IERS" -> IERSProduct(self.product_type, TRUE)
      [] OTHER -> EOFProduct(self.product_type, self.is_multi_file_product, TRUE)

\* the number of GIP_* product types whose plugins are called
MaxGipp == 2

\* GIP_* product types, with and without the namespace in turn
GippSample ==
    <<"GIP_ATMIMA", "GIP_CONVER", "GIP_VIEDIR", "GIP_R2SWIR", "GIP_ATMSAD",
      "GIP_DECOMP">>

\* the plugins that are called: those of the registry (the first MaxGipp of
\* GippSample among the GIP_* ones) and the same classes with packaged=True
Registered ==
    {product_type_plugin(pt) :
        pt \in (product_types \ DOMAIN GIPP_PRODUCT_TYPES)
               \cup {GippSample[i] : i \in 1..MaxGipp}}

Plugins == Registered \cup {PackagedPlugin(p) : p \in Registered}

Document(xmlns, root, start, stop, creation) ==
    [xml |-> TRUE, root |-> root, xmlns |-> xmlns,
     Validity_Start |-> start, Validity_Stop |-> stop, Creation_Date |-> creation,
     System |-> "SGS_", Creator |-> "OrbitProc", Creator_Version |-> "1.2"]

\* a file that is not XML
PlainText == [Document(FALSE, "", "", "", "") EXCEPT !.xml = FALSE]

\* the root of the header document of a product of the plugin
RootOf(self) ==
    IF self.is_multi_file_product THEN "Earth_Explorer_Header"
    ELSE "Earth_Explorer_File"

\* the documents that are found in a product of the plugin: a header that
\* fits the plugin, and the documents that differ from it in one respect
Documents(self) ==
    LET d == Document(self.xml_namespace, RootOf(self), "UTC=2021-03-04T00:00:00",
                      "UTC=2022-12-31T23:59:59", "UTC=2021-03-07T08:09:10")
    IN  {d, PlainText}
        \cup {[d EXCEPT !.Validity_Stop = t] :
                t \in {"UTC=9999-99-99T99:99:99", "UTC=2021-02-30T00:00:00"}}
        \cup {[d EXCEPT !.Validity_Start = t] :
                t \in {"UTC=0005-03-05T00:00:00", "2021-03-04T00:00:00"}}
        \cup {[d EXCEPT !.xmlns = ~self.xml_namespace]}
        \cup {[d EXCEPT !.root = r] :
                r \in {"Earth_Explorer_Header", "Earth_Explorer_File"}}

World(doc, listing, isdir) == [doc |-> doc, listing |-> listing, isdir |-> isdir]

NoWorld == World(PlainText, <<>>, FALSE)

Args(specs, filename_only, world, properties, pads_year, target_path, componentpath) ==
    [specs |-> specs, paths |-> PathsOf(specs), filename_only |-> filename_only,
     world |-> world, properties |-> properties, pads_year |-> pads_year,
     target_path |-> target_path, componentpath |-> componentpath]

NoArgs == Args(<<>>, TRUE, NoWorld, Struct, TRUE, "", "")

(***************************************************************************)
(* The state: the last call (the method, the object it was called on, its  *)
(* arguments and what it returned or raised), the files under the target   *)
(* directories, and the export calls before the last one.                  *)
(***************************************************************************)

VARIABLES op, self, args, result, fs, prev

vars == <<op, self, args, result, fs, prev>>

Init ==
    /\ op = ""
    /\ self = product_type_plugin("MSIL1C")
    /\ args = NoArgs
    /\ result = Returned("")
    /\ fs = <<>>
    /\ prev = <<>>

\* no call was made yet
Idle == op = ""

Identify ==
    /\ Idle
    /\ \E plugin \in Plugins :
        \E specs \in PathSpecs(plugin) :
            /\ op' = "identify"
            /\ self' = plugin
            /\ args' = [NoArgs EXCEPT !.specs = specs, !.paths = PathsOf(specs)]
            /\ result' = Returned(identify(plugin, PathsOf(specs)))
            /\ UNCHANGED <<fs, prev>>

\* the name of a product without the suffix of its file
Stem(ns) == Render([ns EXCEPT !.suffix = "", !.tail = ""])

\* the members of the archive of a packaged product as they are listed: the
\* files of the product, or one of them missing, or one more
Listings(plugin, specs) ==
    IF Len(specs) # 1 THEN {<<>>}
    ELSE LET stem == Stem(specs[1].ns)
         IN CASE plugin.cls \in {"SAFE", "PDI"} -> {<<"b.xml", "a.xml">>}
              [] ~plugin.packaged -> {<<>>}
              [] plugin.is_multi_file_product ->
                    {<<stem \o ".DBL", stem \o ".HDR">>, <<stem \o ".DBL">>}
              [] OTHER ->
                    {<<stem \o "." \o plugin.ext>>,
                     <<stem \o "." \o plugin.ext, stem \o "." \o plugin.ext \o ".EOF">>}

IsDirectory(plugin) == plugin.cls \in {"SAFE", "PDI"} /\ ~plugin.packaged

Worlds(plugin, specs) ==
    {World(d, l, IsDirectory(plugin)) :
        d \in Documents(plugin), l \in Listings(plugin, specs)}

\* analyze is called on what identify accepted; the plain-text kind is
\* also followed on every other list of paths.  For SAFE and PDI products
\* the call with filename_only=True is followed.
Analyze ==
    /\ Idle
    /\ \E plugin \in Plugins :
        \E specs \in PathSpecs(plugin), filename_only \in BOOLEAN :
            /\ identify(plugin, PathsOf(specs)) \/ plugin.cls = "IERS"
            /\ plugin.cls \in {"SAFE", "PDI"} => filename_only
            /\ \E world \in (IF filename_only /\ plugin.cls # "IERS"
                             THEN {World(PlainText, <<>>, IsDirectory(plugin))}
                             ELSE IF identify(plugin, PathsOf(specs))
                             THEN Worlds(plugin, specs)
                             ELSE {NoWorld}) :
                /\ op' = "analyze"
                /\ self' = plugin
                /\ args' = [NoArgs EXCEPT !.specs = specs, !.paths = PathsOf(specs),
                                          !.filename_only = filename_only,
                                          !.world = world]
                /\ result' = analyze(plugin, PathsOf(specs), filename_only, world)
                /\ UNCHANGED <<fs, prev>>

\* the property bags handed to archive_path: what analyze can return for
\* mission and validity start, with or without other properties, and bags
\* that lack a field
Bags ==
    LET Full == {("sentinel2.mission" :> m) @@ ("core.validity_start" :> d) @@ other :
                   m \in {"S2", "S2A", "S2B", "S2C", "S2D"},
                   d \in {datetime(2021, 3, 5, 12, 34, 56, 0),
                          datetime(2024, 2, 29, 23, 59, 59, 0),
                          datetime(5, 3, 5, 0, 0, 0, 0),
                          datetime(999, 12, 31, 0, 0, 0, 0),
                          datetime(1000, 1, 1, 0, 0, 0, 0),
                          datetime_max},
                   other \in {Struct,
                              ("core.product_name" :> "P") @@
                              ("core.validity_stop" :> datetime_max) @@
                              ("core.creation_date" :> datetime(2020, 1, 1, 0, 0, 0, 0)) @@
                              ("sentinel2.relative_orbit" :> 65)}}
    IN  Full \cup {Struct, ("sentinel2.mission" :> "S2A"),
                   ("core.validity_start" :> datetime(2021, 3, 5, 12, 34, 56, 0))}

ArchivePath ==
    /\ Idle
    /\ \E plugin \in Registered, properties \in Bags, pads_year \in BOOLEAN :
        /\ op' = "archive_path"
        /\ self' = plugin
        /\ args' = [NoArgs EXCEPT !.properties = properties, !.pads_year = pads_year]
        /\ result' = archive_path(plugin, properties, pads_year)
        /\ UNCHANGED <<fs, prev>>

\* the members of a product that holds the component, as they are listed:
\* under no directory, under the name of the product, under the name of the
\* archive without its last extension; or no member
ComponentListings(plugin, spec, componentpath) ==
    {<<>>, <<componentpath>>,
     <<join(Stem(spec.ns), componentpath)>>,
     <<join(splitext(Render(spec.ns))[1], componentpath)>>}

ReadXmlComponent ==
    /\ Idle
    /\ \E plugin \in Plugins :
        \E specs \in PathSpecs(plugin), componentpath \in {"MTD.xml"} :
            /\ Len(specs) = 1
            /\ identify(plugin, PathsOf(specs))
            /\ \E d \in {Document(FALSE, "Root", "", "", ""), PlainText},
                  l \in ComponentListings(plugin, specs[1], componentpath) :
                /\ op' = "read_xml_component"
                /\ self' = plugin
                /\ args' = [NoArgs EXCEPT !.specs = specs, !.paths = PathsOf(specs),
                                          !.componentpath = componentpath,
                                          !.world = World(d, l, IsDirectory(plugin))]
                /\ result' = read_xml_component(plugin, PathsOf(specs)[1], componentpath,
                                                World(d, l, IsDirectory(plugin)))
                /\ UNCHANGED <<fs, prev>>

\* read_xml_header is called on a path of a product that identify accepted,
\* as analyze calls it
ReadXmlHeader ==
    /\ Idle
    /\ \E plugin \in {p \in Plugins : p.cls \in {"EOF", "GIPP", "IERS"}} :
        \E specs \in PathSpecs(plugin) :
            /\ identify(plugin, PathsOf(specs))
            /\ \E world \in Worlds(plugin, specs) :
                /\ op' = "read_xml_header"
                /\ self' = plugin
                /\ args' = [NoArgs EXCEPT !.specs = specs, !.paths = PathsOf(specs),
                                          !.filename_only = FALSE, !.world = world]
                /\ result' = read_xml_header(plugin,
                                             sorted(PathsOf(specs))[Len(specs)], world)
                /\ UNCHANGED <<fs, prev>>

Next == Identify \/ Analyze \/ ArchivePath \/ ReadXmlComponent \/ ReadXmlHeader

Spec == Init /\ [][Next]_vars

(***************************************************************************)
(* Export calls, one after the other on one file system                    *)
(***************************************************************************)

\* the most export calls that are followed
MaxExports == 2

ExportOps == {"export_zip", "export_tar", "export_tgz"}

\* the record of a call and of the files it left
Call(o, s, a, r, files) == [op |-> o, self |-> s, args |-> a, result |-> r, fs |-> files]

ExportsDone == Len(prev) + (IF op \in ExportOps THEN 1 ELSE 0)

\* the plugins whose products are exported
ExportPlugins ==
    {p \in Plugins :
        p.product_type \in {"MSIL1C", "MSI_L1C_DS", "AUX_POEORB", "AUX_GNSSRD"}}

\* the paths of a product of the plugin in the archive: the directory or
\* the file, the two files of a pair in either order, and for a packaged
\* product also two archives
ExportSpecs(plugin) ==
    LET Own(x) == PathSpec("/in.d/b/", NameSpec(LayoutOf(plugin), plugin.product_type, x))
    IN  IF IsPair(plugin)
        THEN {<<Own(".DBL"), Own(".HDR")>>, <<Own(".HDR"), Own(".DBL")>>}
        ELSE {<<Own(x)>> : x \in SuffixesOf(plugin)}
             \cup (IF plugin.packaged
                   THEN {<<Own(x), [Own(x) EXCEPT !.dir = "a/"]>> : x \in SuffixesOf(plugin)}
                   ELSE {})

\* the properties of the product; for SAFE products also those that lack
\* the physical name
ExportBags(plugin, specs) ==
    {("core.physical_name" :> (IF IsPair(plugin) THEN Stem(specs[1].ns)
                               ELSE basename(PathOf(specs[1])))) @@
     ("core.product_name" :> Stem(specs[1].ns))}
    \cup (IF plugin.cls = "SAFE" THEN {Struct} ELSE {})

ExportWorld(plugin) ==
    World(PlainText, IF IsDirectory(plugin) THEN <<"b.xml", "a.xml">> ELSE <<>>,
          IsDirectory(plugin))

TargetPaths == {"out", "/data/out"}

ExportArgs(plugin, specs, properties, target_path) ==
    [NoArgs EXCEPT !.specs = specs, !.paths = PathsOf(specs),
                   !.properties = properties, !.target_path = target_path,
                   !.world = ExportWorld(plugin)]

\* the call returns or raises, and leaves its files
Export(method, plugin, a, r) ==
    /\ op' = method
    /\ self' = plugin
    /\ args' = a
    /\ result' = [exc |-> r.exc, v |-> r.v]
    /\ fs' = r.fs
    /\ prev' = IF op \in ExportOps THEN Append(prev, Call(op, self, args, result, fs))
               ELSE prev

CanExport == op \in {""} \cup ExportOps /\ ExportsDone < MaxExports

SAFE_export_zip ==
    /\ CanExport
    /\ \E plugin \in {p \in ExportPlugins : p.cls = "SAFE"} :
        \E specs \in ExportSpecs(plugin), target_path \in TargetPaths :
            \E properties \in ExportBags(plugin, specs) :
                Export("export_zip", plugin,
                       ExportArgs(plugin, specs, properties, target_path),
                       SAFEProduct_export_zip(plugin, properties, target_path,
                                              PathsOf(specs), ExportWorld(plugin), fs))

PDI_export_tar ==
    /\ CanExport
    /\ \E plugin \in {p \in ExportPlugins : p.cls = "PDI"} :
        \E specs \in ExportSpecs(plugin), target_path \in TargetPaths :
            \E properties \in ExportBags(plugin, specs) :
                Export("export_tar", plugin,
                       ExportArgs(plugin, specs, properties, target_path),
                       PDIProduct_export_tar(plugin, properties, target_path,
                                             PathsOf(specs), ExportWorld(plugin), fs))

EOF_export_tgz ==
    /\ CanExport
    /\ \E plugin \in {p \in ExportPlugins : p.cls = "EOF"} :
        \E specs \in ExportSpecs(plugin), target_path \in TargetPaths :
            \E properties \in ExportBags(plugin, specs) :
                Export("export_tgz", plugin,
                       ExportArgs(plugin, specs, properties, target_path),
                       EOFProduct_export_tgz(plugin, properties, target_path,
                                             PathsOf(specs), ExportWorld(plugin), fs))

EOF_export_zip ==
    /\ CanExport
    /\ \E plugin \in {p \in ExportPlugins : p.cls = "EOF"} :
        \E specs \in ExportSpecs(plugin), target_path \in TargetPaths :
            \E properties \in ExportBags(plugin, specs) :
                Export("export_zip", plugin,
                       ExportArgs(plugin, specs, properties, target_path),
                       EOFProduct_export_zip(plugin, properties, target_path,
                                             PathsOf(specs), ExportWorld(plugin), fs))

NextExport == SAFE_export_zip \/ PDI_export_tar \/ EOF_export_tgz \/ EOF_export_zip

SpecExport == Init /\ [][NextExport]_vars

(***************************************************************************)
(* What a name description is a name of                                    *)
(***************************************************************************)

Missions == {"S2_", "S2A", "S2B", "S2C", "S2D"}

Bands == {"00", "01", "02", "03", "04", "05", "06", "07", "08", "8A", "09",
          "10", "11", "12"}

\* the date fields of the names of a layout
DateFields(layout) ==
    CASE layout = "SAFE" -> {"start", "creation"}
      [] layout = "PDI_DS" -> {"start", "creation"}
      [] layout = "PDI_TL" -> {"creation"}
      [] OTHER -> {"start", "stop", "creation"}

\* the description is that of a file name of the grammar of the plugin,
\* ending in the suffix; a name followed by one newline counts as such a
\* name, as it does for the "$" of the patterns
Conforms(ns, plugin, suffix) ==
    /\ ns.layout = LayoutOf(plugin)
    /\ ns.type = plugin.product_type
    /\ ns.mission \in Missions
    /\ ns.prefix = ""
    /\ \A f \in DateFields(ns.layout) : NameDates[ns[f]].shape
    /\ ns.layout = "GIPP" => ns.band \in Bands
    /\ ns.suffix \o ns.tail \in {suffix, suffix \o "\n"}

\* two paths in ascending order of their basenames
SortedByBasename(specs) ==
    IF StrLess(basename(PathOf(specs[2])), basename(PathOf(specs[1])))
    THEN <<specs[2], specs[1]>> ELSE specs

(***************************************************************************)
(* Claims                                                                  *)
(***************************************************************************)

\* C1: for an unpackaged header/data pair kind identify returns true
\* exactly when there are two paths of which, in ascending order of their
\* basenames, the first is a name of the grammar ending in .DBL and the
\* second one ending in .HDR, whatever the directories and the order of the
\* paths.
C1_PairIdentifiedByBasenameOrder ==
    (op = "identify" /\ IsPair(self)) =>
        result.v = (/\ Len(args.specs) = 2
                    /\ Conforms(SortedByBasename(args.specs)[1].ns, self, ".DBL")
                    /\ Conforms(SortedByBasename(args.specs)[2].ns, self, ".HDR"))

\* C2: no list of paths is identified by the plugins of two different
\* registered product types.
C2_NoDoubleIdentification ==
    op = "identify" =>
        LET Identifying == {k \in product_types :
                              identify(product_type_plugin(k), args.paths)}
        IN \A k1 \in Identifying, k2 \in Identifying : k1 = k2

\* a registered plugin identified the paths it was called with
C2_Witness ==
    /\ op = "identify"
    /\ self \in {product_type_plugin(k) : k \in product_types}
    /\ result.v
    /\ \E k \in product_types : identify(product_type_plugin(k), args.paths)

ParsedName == args.specs[1].ns

\* the dates of a name are dates (the validity stop may be the sentinel)
NameValid(ns) ==
    /\ NameDates[ns.creation].ok
    /\ NameDates[ns.start].ok
    /\ ns.stop = "99999999T999999" \/ NameDates[ns.stop].ok

NameStop(ns) ==
    IF ns.stop = "99999999T999999" THEN datetime_max ELSE NameDates[ns.stop].value

\* the processing facility that Render writes into a name
NameFacility(ns) == IF ns.layout = "GIPP" THEN "MPC_" ELSE "PDMC"

\* the document is a header as the plugin expects it
HeaderFits(plugin, doc) ==
    /\ doc.xml
    /\ doc.root = RootOf(plugin)
    /\ doc.xmlns = plugin.xml_namespace

HeaderValid(doc) ==
    /\ HeaderDates[doc.Validity_Start].ok
    /\ HeaderDates[doc.Creation_Date].ok
    /\ doc.Validity_Stop = "UTC=9999-99-99T99:99:99" \/ HeaderDates[doc.Validity_Stop].ok

HeaderStop(doc) ==
    IF doc.Validity_Stop = "UTC=9999-99-99T99:99:99" THEN datetime_max
    ELSE HeaderDates[doc.Validity_Stop].value

\* the header of the product is where read_xml_header is to find it: the
\* file itself, or the .HDR member of the archive of a packaged pair
HeaderInPlace(plugin, a) ==
    \/ ~plugin.packaged
    \/ /\ plugin.is_multi_file_product
       /\ Stem(a.specs[1].ns) \o ".HDR" \in Range(a.world.listing)

\* an analyze call of the class on paths that identify accepts
AnalyzeCall(classes) ==
    /\ op = "analyze"
    /\ self.cls \in classes
    /\ identify(self, args.paths)

\* C6 (as claimed): reading a document from a packaged product returns the
\* tree of the named member for the package formats zip, tar and tgz, and
\* raises the unsupported-format error exactly for every other format.
\* Stated for the classes that define is_multi_file_product, the ones that
\* have products packaged as tgz.
C6_Original ==
    (/\ op = "read_xml_component"
     /\ self.packaged
     /\ "is_multi_file_product" \in self.attrs) =>
        /\ self.package_format \in {"zip", "tar", "tgz"} => result.exc # "Exception"
        /\ self.package_format \notin {"zip", "tar", "tgz"} => result.exc = "Exception"
        /\ (/\ args.world.doc.xml
            /\ (IF self.is_multi_file_product
                THEN args.componentpath
                ELSE join(splitext(basename(args.paths[1]))[1], args.componentpath))
               \in Range(args.world.listing))
           => (result.exc = "" /\ result.v.doc = args.world.doc)

\* year, month and day of the validity starts of Bags as four, two and
\* two digits
DateSegments ==
    (datetime(2021, 3, 5, 12, 34, 56, 0) :> <<"2021", "03", "05">>) @@
    (datetime(2024, 2, 29, 23, 59, 59, 0) :> <<"2024", "02", "29">>) @@
    (datetime(5, 3, 5, 0, 0, 0, 0) :> <<"0005", "03", "05">>) @@
    (datetime(999, 12, 31, 0, 0, 0, 0) :> <<"0999", "12", "31">>) @@
    (datetime(1000, 1, 1, 0, 0, 0, 0) :> <<"1000", "01", "01">>) @@
    (datetime_max :> <<"9999", "12", "31">>)

\* C7 (as claimed): archive_path returns mission/product_type/YYYY/MM/DD
\* with the zero-padded year, month and day of the validity start, and
\* nothing else of the properties matters.
C7_Original ==
    (/\ op = "archive_path"
     /\ Has(args.properties, "core.validity_start")
     /\ Has(args.properties, "sentinel2.mission")) =>
        /\ result.exc = ""
        /\ result.v = args.properties["sentinel2.mission"] \o "/" \o self.product_type
                      \o "/" \o DateSegments[args.properties["core.validity_start"]][1]
                      \o "/" \o DateSegments[args.properties["core.validity_start"]][2]
                      \o "/" \o DateSegments[args.properties["core.validity_start"]][3]

C10_PlainTextFilenameOnly ==
    (op = "analyze" /\ self.cls = "IERS") =>
        /\ result.opened = {}
        /\ result = EOFProduct_analyze(self, args.paths, TRUE, args.world)
        /\ (identify(self, args.paths) /\ NameValid(ParsedName)) =>
              /\ result.exc = ""
              /\ result.v["core.validity_start"] = NameDates[ParsedName.start].value
              /\ ~Has(result.v, "sentinel2.processor_name")

\* the plain-text kind was analyzed with filename_only=False where a
\* well-formed header document was at hand, and returned
C10_Witness ==
    /\ op = "analyze"
    /\ self.cls = "IERS"
    /\ ~args.filename_only
    /\ HeaderFits(self, args.world.doc)
    /\ result.exc = ""

\* the export call before the last one was the same call
SameCallTwice ==
    /\ op \in ExportOps
    /\ Len(prev) >= 1
    /\ prev[Len(prev)].op = op
    /\ prev[Len(prev)].self = self
    /\ prev[Len(prev)].args = args

\* C4 (as claimed): exporting an unpackaged product twice in a row with the
\* same descriptor, properties, target directory and paths succeeds both
\* times and leaves the same container at the same path both times, for
\* export_zip as for export_tar and export_tgz.
C4_Original ==
    (/\ SameCallTwice
     /\ ~self.packaged
     /\ Has(args.properties, "core.physical_name")) =>
        /\ prev[Len(prev)].result.exc = ""
        /\ result.exc = ""
        /\ result.v = prev[Len(prev)].result.v
        /\ fs[result.v] = prev[Len(prev)].fs[result.v]

\* the export method is the one of the format the plugin is packaged in
TargetsOwnFormat ==
    /\ self.packaged
    /\ \/ op = "export_zip" /\ self.cls = "SAFE"
       \/ op = "export_tar" /\ self.cls = "PDI"
       \/ op = "export_tgz" /\ self.cls = "EOF" /\ self.is_multi_file_product
       \/ op = "export_zip" /\ self.cls = "EOF" /\ ~self.is_multi_file_product

ContainerExt ==
    CASE op = "export_zip" -> ".zip"
      [] op = "export_tar" -> ".tar"
      [] OTHER -> ".TGZ"

\* the files before the last call
FilesBefore == IF prev = <<>> THEN <<>> ELSE prev[Len(prev)].fs

\* C5 (as claimed): an export in the format the product is packaged in
\* copies the one path into the target directory, builds no container and
\* returns the target directory joined with the basename of the path; every
\* other export builds the container <physical_name>.<ext> from all paths.
C5_Original ==
    op \in ExportOps =>
        IF TargetsOwnFormat
        THEN Len(args.paths) = 1 =>
               /\ result.exc = ""
               /\ result.v = join(args.target_path, basename(args.paths[1]))
               /\ join(abspath(args.target_path), basename(args.paths[1])) \in DOMAIN fs
               /\ \A f \in DOMAIN fs : fs[f].kind # "copy" => f \in DOMAIN FilesBefore
        ELSE Has(args.properties, "core.physical_name") =>
               /\ result.exc = ""
               /\ result.v = join(abspath(args.target_path),
                                  physical_name(args.properties) \o ContainerExt)
               /\ result.v \in DOMAIN fs
               /\ fs[result.v].kind = (IF op = "export_zip" THEN "zip" ELSE "tar")
               /\ \A i \in 1..Len(args.paths) :
                    \E m \in Range(fs[result.v].members) :
                        StartsWith(m, arcname(args.paths[i]))

\* the dates of the name are dates, for the date fields of its layout
NameDatesValid(ns) ==
    \A f \in DateFields(ns.layout) :
        \/ f = "stop" /\ ns.stop = "99999999T999999"
        \/ NameDates[ns[f]].ok

\* C11: in every analyze variant (SAFE, PDI, EOF family) a mission code of
\* the filename whose third character is "_" gives the mission "S2", of two
\* characters, and a mission code S2A, S2B, S2C or S2D is returned as it is;
\* analyze with filename_only=True returns when the dates of the name are
\* dates.
C11_NormalizedMission ==
    (op = "analyze" /\ identify(self, args.paths)) =>
        /\ result.exc = "" =>
              /\ ParsedName.mission = "S2_" =>
                    /\ result.v["sentinel2.mission"] = "S2"
                    /\ Len(result.v["sentinel2.mission"]) = 2
              /\ ParsedName.mission # "S2_" =>
                    /\ ParsedName.mission \in {"S2A", "S2B", "S2C", "S2D"}
                    /\ result.v["sentinel2.mission"] = ParsedName.mission
        /\ (args.filename_only /\ NameDatesValid(ParsedName)) => result.exc = ""

\* a SAFE or PDI product named S2_... was analyzed and the mission is S2
C11_Witness ==
    /\ op = "analyze"
    /\ self.cls \in {"SAFE", "PDI"}
    /\ identify(self, args.paths)
    /\ ParsedName.mission = "S2_"
    /\ result.exc = ""
    /\ result.v["sentinel2.mission"] = "S2"

\* the path of the document as C12 has it resolved
ClaimedDocumentPath ==
    IF ~self.packaged THEN join(args.paths[1], args.componentpath)
    ELSE IF self.is_multi_file_product THEN args.componentpath
    ELSE join(splitext(basename(args.paths[1]))[1], args.componentpath)

\* there is a file or a member at that path
ClaimedDocumentPresent ==
    IF self.packaged THEN ClaimedDocumentPath \in Range(args.world.listing)
    ELSE args.componentpath \in Range(args.world.listing)

\* C12 (as claimed): the metadata document reader opens, for an unpackaged
\* product, the product path joined with the relative path of the document;
\* for a packaged product that is not multi-file, the member named by the
\* basename of the archive without its last extension joined with the
\* relative path; for a packaged multi-file product, the member named by
\* the relative path.  Stated for the package formats the reader has a
\* branch for.
C12_Original ==
    (/\ op = "read_xml_component"
     /\ ~(self.packaged /\ self.package_format = "tgz")) =>
        /\ (ClaimedDocumentPresent /\ args.world.doc.xml) =>
              /\ result.exc = ""
              /\ result.opened = {ClaimedDocumentPath}
              /\ result.v.doc = args.world.doc
        /\ ~ClaimedDocumentPresent => (result.exc # "" /\ result.opened = {})

\* C13 (as claimed): for a packaged single-file EOF product, named
\* <stem>.EOF.zip, the header reader opens the member <stem>.EOF of the
\* archive and returns its Earth_Explorer_Header element; for a packaged
\* pair, named <stem>.TGZ, it opens the member <stem>.HDR.
C13_Original ==
    (op = "read_xml_header" /\ self.packaged /\ self.cls \in {"EOF", "GIPP"}) =>
        IF self.is_multi_file_product
        THEN (Stem(ParsedName) \o ".HDR" \in Range(args.world.listing)
              /\ args.world.doc.xml) =>
                /\ result.exc = ""
                /\ result.opened = {Stem(ParsedName) \o ".HDR"}
                /\ result.v.doc = args.world.doc
        ELSE (Stem(ParsedName) \o ".EOF" \in Range(args.world.listing)
              /\ HeaderFits(self, args.world.doc)) =>
                /\ result.exc = ""
                /\ result.opened = {Stem(ParsedName) \o ".EOF"}
                /\ result.v.tag = "Earth_Explorer_Header"
                /\ result.v.doc = args.world.doc

\* C14 (as claimed): for every registered product type and every list of
\* paths that its identify accepts, the bag that analyze(paths,
\* filename_only=True) returns has sentinel2.mission and
\* core.validity_start, and archive_path returns a path for it.
C14_Original ==
    (/\ op = "analyze"
     /\ self \in {product_type_plugin(k) : k \in product_types}
     /\ args.filename_only
     /\ identify(self, args.paths)
     /\ result.exc = "") =>
        /\ Has(result.v, "sentinel2.mission")
        /\ Has(result.v, "core.validity_start")
        /\ \A pads_year \in BOOLEAN : archive_path(self, result.v, pads_year).exc = ""

\* the two paths of the call in the other order
OtherOrder == <<args.paths[2], args.paths[1]>>

\* C15 (as claimed): for an unpackaged pair and two paths that identify
\* accepts, analyze(paths, filename_only=True) returns the same bag
\* whichever order the two paths are passed in: the same product name,
\* mission, validity start and stop, creation date and processing facility.
C15_Original ==
    (/\ op = "analyze"
     /\ IsPair(self)
     /\ args.filename_only
     /\ Len(args.paths) = 2
     /\ identify(self, args.paths)) =>
        /\ identify(self, OtherOrder)
        /\ result.exc = analyze(self, OtherOrder, TRUE, args.world).exc
        /\ result.v = analyze(self, OtherOrder, TRUE, args.world).v

====
